---- MODULE Spec2Model ----
(***************************************************************************)
(* Model of crates/roc_host/src/http_server.rs: the HTTP front-end that    *)
(* buffers a request body, runs the Roc handler on tokio's blocking pool   *)
(* and turns panics into 500 responses.                                    *)
(*                                                                         *)
(* One request is followed by two cooperating activities:                  *)
(*   - its I/O task, the future handle_panics(handle_req(req)) polled by   *)
(*     the runtime's I/O workers (variable pc);                            *)
(*   - its blocking task, the closure given to spawn_blocking, which runs  *)
(*     call_roc on a thread of the blocking pool (variable task).          *)
(***************************************************************************)
EXTENDS Naturals, Integers, Sequences, FiniteSets, TLC

(* ------------------------------ bounds --------------------------------- *)
MaxReq == 2
NConn == 2
MaxBlockingThreads == 1
NIoThreads == 1

(* --------------------------- program constants ------------------------- *)
BAD_REQUEST == 400
INTERNAL_SERVER_ERROR == 500
\* Exit status of a process whose start() unwound (a failed expect, a panic
\* in hyper::Server::bind).
PanicExit == 101
\* start() has not returned.
NoExit == 0 - 1

Reqs == 1..MaxReq
Conns == 1..NConn

VARIABLES
    startPc,     \* position of start()/run_server()
    ROC_MODEL,   \* the OnceLock: 0 is the empty cell, k > 0 the k-th model
    initCalls,   \* number of calls of roc::call_roc_init
    exitCode,    \* NoExit while start() runs, else 0, 1 or PanicExit
    cause,       \* what ended start(): "none", "set_expect", "runtime", "addr", "bind",
                 \* "loop_ok", "loop_err"
    connOpen,    \* connections accepted by the hyper server
    connBusy,    \* connection -> request being served on it (0: none)
    nextReq,     \* id of the next request to arrive
    pc,          \* request -> position of its I/O task
    input,       \* request -> the hyper::Request it carries
    body,        \* request -> outcome of hyper::body::to_bytes: "pending", "ok", "err"
    task,        \* request -> position of its blocking task
    place,       \* request -> kind of thread its blocking task was given to
    rocReq,      \* request -> << >>, or <<the RequestToAndFromHost call_roc built>>
    joinResult,  \* request -> what the JoinHandle resolves to
    calls,       \* request -> number of roc::call_roc_respond invocations
    seen,        \* request -> the model passed to call_roc_respond (0: none)
    resp,        \* request -> sequence of values handle_panics returned
    stages,      \* request -> the stages it went through, in order
    queue        \* the blocking pool's FIFO of tasks not yet started

vars == <<startPc, ROC_MODEL, initCalls, exitCode, cause, connOpen, connBusy, nextReq,
          pc, input, body, task, place, rocReq, joinResult, calls, seen, resp,
          stages, queue>>

srvVars == <<startPc, ROC_MODEL, initCalls, exitCode, cause>>
connVars == <<connOpen, connBusy, nextReq>>

(* ------------------------------ inputs --------------------------------- *)
\* A header value is a sequence of bytes; 65 is "A", 200 is an opaque byte.
HeaderInputs ==
    { << [name |-> "a", value |-> <<65>>] >>,
      << [name |-> "a", value |-> <<200>>] >> }

MethodInputs == {"GET"}

NoInput == [method |-> "none", uri |-> "none", headers |-> << >>, conn |-> 0]

\* What the handler (roc::call_roc_respond) may return.
HandlerResponses ==
    { [status |-> 200, headers |-> << <<"content-type", "text/plain">> >>, body |-> "OK"],
      [status |-> 500, headers |-> << >>, body |-> "app error"] }

(* --------------------------- pure functions ---------------------------- *)
\* HeaderValue::to_str: Ok only if every byte is visible ASCII or a tab.
IsVisibleAscii(b) == (b >= 32 /\ b < 127) \/ b = 9

HeaderValueToStr(v) ==
    IF \A i \in 1..Len(v) : IsVisibleAscii(v[i])
    THEN [ok |-> TRUE, str |-> v]
    ELSE [ok |-> FALSE, str |-> << >>]

\* Variant: one entry per name, with the first value of the name.
RECURSIVE HeaderMapFirstValues(_)
HeaderMapFirstValues(wire) ==
    IF wire = << >>
    THEN << >>
    ELSE LET n == Head(wire).name
         IN  <<Head(wire)>> \o HeaderMapFirstValues(SelectSeq(wire, LAMBDA h : h.name # n))

\* parts.headers.iter(): hyper appended each wire header to the HeaderMap; the
\* iterator yields the names in the order of their first arrival and, with
\* each name, all its values in the order of their arrival.
RECURSIVE HeaderMapIter(_)
HeaderMapIter(wire) ==
    IF wire = << >>
    THEN << >>
    ELSE LET n == Head(wire).name
         IN  SelectSeq(wire, LAMBDA h : h.name = n)
                \o HeaderMapIter(SelectSeq(wire, LAMBDA h : h.name # n))

\* handle_req: the arguments of call_roc(parts.method, parts.uri,
\* parts.headers.iter(), body).
CallRocArgs(req) ==
    [method |-> req.method, uri |-> req.uri, headers |-> HeaderMapIter(req.headers)]

\* call_roc, the map over the headers: .expect() panics on the first value
\* that to_str rejects; otherwise one roc_http::Header per wire header.
HeadersPanic(headers) ==
    \E i \in 1..Len(headers) : ~HeaderValueToStr(headers[i].value).ok

RocHeaders(headers) ==
    [i \in 1..Len(headers) |->
        [name |-> headers[i].name, value |-> HeaderValueToStr(headers[i].value).str]]

\* call_roc, the match on the method.
StandardMethods ==
    {"GET", "POST", "PUT", "DELETE", "HEAD", "OPTIONS", "CONNECT", "PATCH", "TRACE"}

\* Variant: the PATCH arm is missing from the match.
MethodTagOfNoPatch(m) ==
    CASE m = "GET" -> "Get"
      [] m = "POST" -> "Post"
      [] m = "PUT" -> "Put"
      [] m = "DELETE" -> "Delete"
      [] m = "HEAD" -> "Head"
      [] m = "OPTIONS" -> "Options"
      [] m = "CONNECT" -> "Connect"
      [] m = "TRACE" -> "Trace"
      [] OTHER -> "Extension"

MethodTagOf(m) ==
    CASE m = "GET" -> "Get"
      [] m = "POST" -> "Post"
      [] m = "PUT" -> "Put"
      [] m = "DELETE" -> "Delete"
      [] m = "HEAD" -> "Head"
      [] m = "OPTIONS" -> "Options"
      [] m = "CONNECT" -> "Connect"
      [] m = "PATCH" -> "Patch"
      [] m = "TRACE" -> "Trace"
      [] OTHER -> "Extension"

MethodExtOf(m) == IF m \in StandardMethods THEN "" ELSE m

\* call_roc, the RequestToAndFromHost literal.
RocRequest(in) ==
    [method |-> MethodTagOf(in.method),
     method_ext |-> MethodExtOf(in.method),
     uri |-> in.uri,
     headers |-> RocHeaders(in.headers),
     timeout_ms |-> 0]

\* roc_response.into(): status, headers and body copied.
ToWireResponse(r) == [status |-> r.status, headers |-> r.headers, body |-> r.body]

\* handle_req, the Err(_) arm of the body read.
BodyErrorResponse ==
    [status |-> BAD_REQUEST, headers |-> << >>, body |-> "Error receiving HTTP request body"]

\* Variant: the synthesized response carries the wrong status.
PanicResponseBadRequest ==
    [status |-> BAD_REQUEST, headers |-> << >>, body |-> "Panic detected!"]

\* handle_panics, the Err(_panic) arm.
PanicResponse ==
    [status |-> INTERNAL_SERVER_ERROR, headers |-> << >>, body |-> "Panic detected!"]

\* Outcome of a computation that may unwind.
Returned(r) == [kind |-> "ok", response |-> r]
Panicked == [kind |-> "panic", response |-> PanicResponse]

\* Variant: a JoinError is replaced by a default response.
JoinUnwrapOrDefault(jr) ==
    IF jr.kind = "ok"
    THEN Returned(jr.response)
    ELSE Returned([status |-> 200, headers |-> << >>, body |-> ""])

\* handle_req, resp.unwrap() on the join result: a JoinError (the task
\* panicked or was cancelled) panics in the I/O task.
JoinUnwrap(jr) ==
    IF jr.kind = "ok" THEN Returned(jr.response) ELSE Panicked

\* Variant: a caught panic is handed on as the wrapper's error.
HandlePanicsPropagates(outcome) ==
    IF outcome.kind = "ok"
    THEN [ok |-> TRUE, response |-> outcome.response]
    ELSE [ok |-> FALSE, response |-> PanicResponse]

\* Variant: the wrapper rebuilds the response and loses its headers.
HandlePanicsDropsHeaders(outcome) ==
    IF outcome.kind = "ok"
    THEN [ok |-> TRUE,
          response |-> [status |-> outcome.response.status, headers |-> << >>,
                        body |-> outcome.response.body]]
    ELSE [ok |-> TRUE, response |-> PanicResponse]

\* handle_panics: catch_unwind around the whole future; always Ok(response).
HandlePanics(outcome) ==
    IF outcome.kind = "ok"
    THEN [ok |-> TRUE, response |-> outcome.response]
    ELSE [ok |-> TRUE, response |-> PanicResponse]

\* ROC_MODEL.set(v): stores v only in an empty cell.
OnceLockSet(cell, v) == IF cell = 0 THEN v ELSE cell

\* ROC_MODEL.get()
OnceLockGet(cell) == cell

\* Variant: the closure is run in place, on the I/O worker that polls the request.
SpawnBlockingInline == "io"

\* spawn_blocking: the closure goes to the blocking pool, never to an I/O worker.
SpawnBlockingPlace == "pool"

(* ------------------------------ threads -------------------------------- *)
Executing(r) == task[r] \in {"translated", "handler"}

\* Blocking-pool threads running a task.
PoolBusy == {r \in Reqs : Executing(r) /\ place[r] = "pool"}

\* I/O workers held by a task that runs on them.
IoHeld == {r \in Reqs : Executing(r) /\ place[r] = "io"}

FreeIo == NIoThreads - Cardinality(IoHeld)

\* The runtime polls I/O tasks while serving and, for the poll in progress,
\* while it shuts down.
Polling == startPc \in {"serving", "shutdown"} /\ FreeIo > 0

(* ------------------------------- Init ---------------------------------- *)
Init ==
    /\ startPc = "entry"
    /\ ROC_MODEL = 0
    /\ initCalls = 0
    /\ exitCode = NoExit
    /\ cause = "none"
    /\ connOpen = {}
    /\ connBusy = [c \in Conns |-> 0]
    /\ nextReq = 1
    /\ pc = [r \in Reqs |-> "idle"]
    /\ input = [r \in Reqs |-> NoInput]
    /\ body = [r \in Reqs |-> "pending"]
    /\ task = [r \in Reqs |-> "none"]
    /\ place = [r \in Reqs |-> "none"]
    /\ rocReq = [r \in Reqs |-> << >>]
    /\ joinResult = [r \in Reqs |-> [kind |-> "none"]]
    /\ calls = [r \in Reqs |-> 0]
    /\ seen = [r \in Reqs |-> 0]
    /\ resp = [r \in Reqs |-> << >>]
    /\ stages = [r \in Reqs |-> << >>]
    /\ queue = << >>

reqVars == <<pc, input, body, task, place, rocReq, joinResult, calls, seen, resp, stages, queue>>

(* ------------------------- start / run_server -------------------------- *)
\* Variant: a second set is ignored and start() goes on.
StartSetModelKeepsFirst ==
    /\ startPc = "entry"
    /\ initCalls' = initCalls + 1
    /\ ROC_MODEL' = OnceLockSet(ROC_MODEL, initCalls + 1)
    /\ startPc' = "model_set"
    /\ UNCHANGED <<exitCode, cause, connVars, reqVars>>

\* start(): ROC_MODEL.set(roc::call_roc_init()).expect(..)
StartSetModel ==
    /\ startPc = "entry"
    /\ initCalls' = initCalls + 1
    /\ ROC_MODEL' = OnceLockSet(ROC_MODEL, initCalls + 1)
    /\ IF ROC_MODEL = 0
       THEN startPc' = "model_set" /\ exitCode' = exitCode /\ cause' = cause
       ELSE startPc' = "exited" /\ exitCode' = PanicExit /\ cause' = "set_expect"
    /\ UNCHANGED <<connVars, reqVars>>

\* Variant: a runtime that cannot be built is reported as success.
BuildRuntimeErrIsZero(ok) ==
    /\ startPc = "model_set"
    /\ IF ok
       THEN startPc' = "run_server" /\ exitCode' = exitCode /\ cause' = cause
       ELSE startPc' = "exited" /\ exitCode' = 0 /\ cause' = "runtime"
    /\ UNCHANGED <<ROC_MODEL, initCalls, connVars, reqVars>>

\* start(): Builder::new_multi_thread().enable_all().build()
BuildRuntime(ok) ==
    /\ startPc = "model_set"
    /\ IF ok
       THEN startPc' = "run_server" /\ exitCode' = exitCode /\ cause' = cause
       ELSE startPc' = "exited" /\ exitCode' = 1 /\ cause' = "runtime"
    /\ UNCHANGED <<ROC_MODEL, initCalls, connVars, reqVars>>

\* run_server(): parse the address (expect) and bind (hyper::Server::bind
\* panics when it cannot bind).
BindServer(addrOk, bindOk) ==
    /\ startPc = "run_server"
    /\ IF addrOk /\ bindOk
       THEN startPc' = "serving" /\ exitCode' = exitCode /\ cause' = cause
       ELSE /\ startPc' = "exited"
            /\ exitCode' = PanicExit
            /\ cause' = IF addrOk THEN "bind" ELSE "addr"
    /\ UNCHANGED <<ROC_MODEL, initCalls, connVars, reqVars>>

\* Variant: a task dropped at shutdown is reported like a handler panic.
ServerLoopEndsAsPanic(ok) ==
    /\ startPc = "serving"
    /\ startPc' = "shutdown"
    /\ exitCode' = IF ok THEN 0 ELSE 1
    /\ cause' = IF ok THEN "loop_ok" ELSE "loop_err"
    /\ task' = [r \in Reqs |-> IF task[r] = "queued" THEN "cancelled" ELSE task[r]]
    /\ joinResult' = [r \in Reqs |->
            IF task[r] = "queued"
            THEN [kind |-> "panic", payload |-> "handler"]
            ELSE joinResult[r]]
    /\ queue' = << >>
    /\ UNCHANGED <<ROC_MODEL, initCalls, connVars, pc, input, body, place, rocReq, calls, seen, resp, stages>>

\* run_server(): server.await resolves; block_on returns and the runtime is
\* dropped: tasks still in the blocking pool's queue are cancelled.
ServerLoopEnds(ok) ==
    /\ startPc = "serving"
    /\ startPc' = "shutdown"
    /\ exitCode' = IF ok THEN 0 ELSE 1
    /\ cause' = IF ok THEN "loop_ok" ELSE "loop_err"
    /\ task' = [r \in Reqs |-> IF task[r] = "queued" THEN "cancelled" ELSE task[r]]
    /\ joinResult' = [r \in Reqs |->
            IF task[r] = "queued" THEN [kind |-> "cancelled"] ELSE joinResult[r]]
    /\ queue' = << >>
    /\ UNCHANGED <<ROC_MODEL, initCalls, connVars, pc, input, body, place, rocReq, calls, seen, resp, stages>>

\* start() returns: the runtime is gone, nothing is polled any more.
RuntimeDropped ==
    /\ startPc = "shutdown"
    /\ \A r \in Reqs : ~Executing(r)
    /\ startPc' = "exited"
    /\ UNCHANGED <<ROC_MODEL, initCalls, exitCode, cause, connVars, reqVars>>

(* --------------------------- the server loop --------------------------- *)
\* hyper accepts a connection; make_service_fn builds its service.
\* Connections are numbered in the order of their acceptance.
Accept(c) ==
    /\ startPc = "serving"
    /\ FreeIo > 0
    /\ c = Cardinality(connOpen) + 1
    /\ connOpen' = connOpen \cup {c}
    /\ UNCHANGED <<srvVars, connBusy, nextReq, reqVars>>

\* Variant: the request is dispatched as it arrives, its body still unread.
ReceiveDispatches(c, hs, m) ==
    /\ startPc = "serving"
    /\ FreeIo > 0
    /\ c \in connOpen
    /\ connBusy[c] = 0
    /\ nextReq <= MaxReq
    /\ pc' = [pc EXCEPT ![nextReq] = "joining"]
    /\ input' = [input EXCEPT ![nextReq] =
                    [method |-> m, uri |-> "/", headers |-> hs, conn |-> c]]
    /\ connBusy' = [connBusy EXCEPT ![c] = nextReq]
    /\ nextReq' = nextReq + 1
    /\ task' = [task EXCEPT ![nextReq] = "queued"]
    /\ place' = [place EXCEPT ![nextReq] = SpawnBlockingPlace]
    /\ queue' = Append(queue, nextReq)
    /\ stages' = [stages EXCEPT ![nextReq] = <<"Received", "Dispatched">>]
    /\ UNCHANGED <<srvVars, connOpen, body, rocReq, joinResult, calls, seen, resp>>

\* service_fn: handle_panics(handle_req(req)) is created and polled up to
\* the await of hyper::body::to_bytes.
Receive(c, hs, m) ==
    /\ startPc = "serving"
    /\ FreeIo > 0
    /\ c \in connOpen
    /\ connBusy[c] = 0
    /\ nextReq <= MaxReq
    /\ pc' = [pc EXCEPT ![nextReq] = "reading"]
    /\ input' = [input EXCEPT ![nextReq] =
                    [method |-> m, uri |-> "/", headers |-> hs, conn |-> c]]
    /\ connBusy' = [connBusy EXCEPT ![c] = nextReq]
    /\ nextReq' = nextReq + 1
    /\ stages' = [stages EXCEPT ![nextReq] = <<"Received">>]
    /\ UNCHANGED <<srvVars, connOpen, body, task, place, rocReq, joinResult, calls, seen, resp, queue>>

\* Variant: admission control, a saturated pool rejects the request.
BodyReadRejects(r) ==
    /\ Polling
    /\ pc[r] = "reading"
    /\ body' = [body EXCEPT ![r] = "ok"]
    /\ IF startPc = "serving" /\ Cardinality(PoolBusy) = MaxBlockingThreads
       THEN /\ pc' = [pc EXCEPT ![r] = "done"]
            /\ resp' = [resp EXCEPT ![r] = Append(@, HandlePanics(Returned(
                          [status |-> 503, headers |-> << >>, body |-> "busy"])))]
            /\ UNCHANGED <<task, place, queue, joinResult>>
       ELSE /\ pc' = [pc EXCEPT ![r] = "joining"]
            /\ place' = [place EXCEPT ![r] = SpawnBlockingPlace]
            /\ resp' = resp
            /\ IF startPc = "serving"
               THEN /\ task' = [task EXCEPT ![r] = "queued"]
                    /\ queue' = Append(queue, r)
                    /\ joinResult' = joinResult
               ELSE /\ task' = [task EXCEPT ![r] = "cancelled"]
                    /\ queue' = queue
                    /\ joinResult' = [joinResult EXCEPT ![r] = [kind |-> "cancelled"]]
    /\ stages' = [stages EXCEPT ![r] = @ \o <<"BodyBuffered", "Dispatched">>]
    /\ UNCHANGED <<srvVars, connVars, input, rocReq, calls, seen>>

\* Variant: handle_req builds the Normalized Request before it dispatches.
BodyReadTranslatesFirst(r) ==
    /\ Polling
    /\ pc[r] = "reading"
    /\ ~HeadersPanic(CallRocArgs(input[r]).headers)
    /\ pc' = [pc EXCEPT ![r] = "joining"]
    /\ body' = [body EXCEPT ![r] = "ok"]
    /\ place' = [place EXCEPT ![r] = SpawnBlockingPlace]
    /\ rocReq' = [rocReq EXCEPT ![r] = <<RocRequest(CallRocArgs(input[r]))>>]
    /\ IF startPc = "serving"
       THEN /\ task' = [task EXCEPT ![r] = "queued"]
            /\ queue' = Append(queue, r)
            /\ joinResult' = joinResult
       ELSE /\ task' = [task EXCEPT ![r] = "cancelled"]
            /\ queue' = queue
            /\ joinResult' = [joinResult EXCEPT ![r] = [kind |-> "cancelled"]]
    /\ stages' = [stages EXCEPT ![r] = @ \o <<"BodyBuffered", "Translated", "Dispatched">>]
    /\ UNCHANGED <<srvVars, connVars, input, calls, seen, resp>>

\* handle_req: to_bytes resolved Ok(body); spawn_blocking queues the closure
\* (a pool that is shutting down hands back a cancelled task instead).
BodyRead(r) ==
    /\ Polling
    /\ pc[r] = "reading"
    /\ pc' = [pc EXCEPT ![r] = "joining"]
    /\ body' = [body EXCEPT ![r] = "ok"]
    /\ place' = [place EXCEPT ![r] = SpawnBlockingPlace]
    /\ IF startPc = "serving"
       THEN /\ task' = [task EXCEPT ![r] = "queued"]
            /\ queue' = Append(queue, r)
            /\ joinResult' = joinResult
       ELSE /\ task' = [task EXCEPT ![r] = "cancelled"]
            /\ queue' = queue
            /\ joinResult' = [joinResult EXCEPT ![r] = [kind |-> "cancelled"]]
    /\ stages' = [stages EXCEPT ![r] = @ \o <<"BodyBuffered", "Dispatched">>]
    /\ UNCHANGED <<srvVars, connVars, input, rocReq, calls, seen, resp>>

\* Variant: the body error is answered but the request is dispatched anyway.
BodyErrorDispatches(r) ==
    /\ Polling
    /\ pc[r] = "reading"
    /\ pc' = [pc EXCEPT ![r] = "done"]
    /\ body' = [body EXCEPT ![r] = "err"]
    /\ resp' = [resp EXCEPT ![r] = Append(@, HandlePanics(Returned(BodyErrorResponse)))]
    /\ task' = [task EXCEPT ![r] = "queued"]
    /\ place' = [place EXCEPT ![r] = SpawnBlockingPlace]
    /\ queue' = Append(queue, r)
    /\ stages' = [stages EXCEPT ![r] = Append(@, "Failed")]
    /\ UNCHANGED <<srvVars, connVars, input, rocReq, joinResult, calls, seen>>

\* handle_req: to_bytes resolved Err(_); the 400 goes through handle_panics.
BodyError(r) ==
    /\ Polling
    /\ pc[r] = "reading"
    /\ pc' = [pc EXCEPT ![r] = "done"]
    /\ body' = [body EXCEPT ![r] = "err"]
    /\ resp' = [resp EXCEPT ![r] = Append(@, HandlePanics(Returned(BodyErrorResponse)))]
    /\ stages' = [stages EXCEPT ![r] = Append(@, "Failed")]
    /\ UNCHANGED <<srvVars, connVars, input, task, place, rocReq, joinResult, calls, seen, queue>>

\* A free thread of the blocking pool takes the oldest task and runs
\* call_roc up to the RequestToAndFromHost literal.
WorkerStart(r) ==
    /\ startPc = "serving"
    /\ queue # << >>
    /\ r = Head(queue)
    /\ Cardinality(PoolBusy) < MaxBlockingThreads
    /\ queue' = Tail(queue)
    /\ IF HeadersPanic(CallRocArgs(input[r]).headers)
       THEN /\ task' = [task EXCEPT ![r] = "finished"]
            /\ joinResult' = [joinResult EXCEPT ![r] =
                    [kind |-> "panic", payload |-> "valid header value from hyper"]]
            /\ rocReq' = rocReq
            /\ stages' = stages
       ELSE /\ task' = [task EXCEPT ![r] = "translated"]
            /\ joinResult' = joinResult
            /\ rocReq' = [rocReq EXCEPT ![r] = <<RocRequest(CallRocArgs(input[r]))>>]
            /\ stages' = [stages EXCEPT ![r] = Append(@, "Translated")]
    /\ UNCHANGED <<srvVars, connVars, pc, input, body, place, calls, seen, resp>>

\* Variant: the model is built again for each invocation.
CallRocRespondReinit(r) ==
    /\ task[r] = "translated"
    /\ task' = [task EXCEPT ![r] = "handler"]
    /\ calls' = [calls EXCEPT ![r] = @ + 1]
    /\ initCalls' = initCalls + 1
    /\ seen' = [seen EXCEPT ![r] = initCalls + 1]
    /\ UNCHANGED <<startPc, ROC_MODEL, exitCode, cause, connVars, pc, input, body, place, rocReq,
                   joinResult, resp, queue, stages>>

\* call_roc: roc::call_roc_respond(roc_request, ROC_MODEL.get().expect(..))
CallRocRespond(r) ==
    /\ task[r] = "translated"
    /\ IF OnceLockGet(ROC_MODEL) = 0
       THEN /\ task' = [task EXCEPT ![r] = "finished"]
            /\ joinResult' = [joinResult EXCEPT ![r] =
                    [kind |-> "panic", payload |-> "Model was initialized at startup"]]
            /\ UNCHANGED <<calls, seen>>
       ELSE /\ task' = [task EXCEPT ![r] = "handler"]
            /\ calls' = [calls EXCEPT ![r] = @ + 1]
            /\ seen' = [seen EXCEPT ![r] = OnceLockGet(ROC_MODEL)]
            /\ joinResult' = joinResult
    /\ UNCHANGED <<srvVars, connVars, pc, input, body, place, rocReq, resp, queue, stages>>

\* The handler returns; call_roc returns roc_response.into().
HandlerReturn(r, out) ==
    /\ task[r] = "handler"
    /\ task' = [task EXCEPT ![r] = "finished"]
    /\ joinResult' = [joinResult EXCEPT ![r] = [kind |-> "ok", response |-> ToWireResponse(out)]]
    /\ UNCHANGED <<srvVars, connVars, pc, input, body, place, rocReq, calls, seen, resp, queue, stages>>

\* Variant: a handler that panicked is run again.
HandlerPanicRetries(r) ==
    /\ task[r] = "handler"
    /\ IF calls[r] < 2
       THEN task' = [task EXCEPT ![r] = "translated"] /\ joinResult' = joinResult
       ELSE /\ task' = [task EXCEPT ![r] = "finished"]
            /\ joinResult' = [joinResult EXCEPT ![r] = [kind |-> "panic", payload |-> "handler"]]
    /\ UNCHANGED <<srvVars, connVars, pc, input, body, place, rocReq, calls, seen, resp, queue, stages>>

\* The handler panics; tokio stores the panic in the task's JoinError.
HandlerPanic(r) ==
    /\ task[r] = "handler"
    /\ task' = [task EXCEPT ![r] = "finished"]
    /\ joinResult' = [joinResult EXCEPT ![r] = [kind |-> "panic", payload |-> "handler"]]
    /\ UNCHANGED <<srvVars, connVars, pc, input, body, place, rocReq, calls, seen, resp, queue, stages>>

\* Variant: the fault boundary is the connection, a panic closes it.
JoinPerConnection(r) ==
    /\ Polling
    /\ pc[r] = "joining"
    /\ task[r] \in {"finished", "cancelled"}
    /\ pc' = [pc EXCEPT ![r] = "done"]
    /\ resp' = [resp EXCEPT ![r] = Append(@, HandlePanics(JoinUnwrap(joinResult[r])))]
    /\ connOpen' = IF joinResult[r].kind = "ok" THEN connOpen ELSE connOpen \ {input[r].conn}
    /\ stages' = [stages EXCEPT ![r] = Append(@, (IF joinResult[r].kind = "ok" THEN "Completed" ELSE "Failed"))]
    /\ UNCHANGED <<srvVars, connBusy, nextReq, input, body, task, place, rocReq, joinResult, calls, seen, queue>>

\* Variant: the join gives up on a handler that is still running.
JoinOrTimeout(r) ==
    /\ Polling
    /\ pc[r] = "joining"
    /\ task[r] \in {"handler", "finished", "cancelled"}
    /\ pc' = [pc EXCEPT ![r] = "done"]
    /\ resp' = [resp EXCEPT ![r] = Append(@,
                  IF task[r] = "handler"
                  THEN HandlePanics(Returned([status |-> 504, headers |-> << >>, body |-> "timeout"]))
                  ELSE HandlePanics(JoinUnwrap(joinResult[r])))]
    /\ stages' = [stages EXCEPT ![r] = Append(@, (IF joinResult[r].kind = "ok" THEN "Completed" ELSE "Failed"))]
    /\ UNCHANGED <<srvVars, connVars, input, body, task, place, rocReq, joinResult, calls, seen, queue>>

\* Variant: responses are produced in the order the requests arrived.
JoinInOrder(r) ==
    /\ Polling
    /\ pc[r] = "joining"
    /\ task[r] \in {"finished", "cancelled"}
    /\ \A o \in Reqs : o < r => pc[o] \in {"done", "written"}
    /\ pc' = [pc EXCEPT ![r] = "done"]
    /\ resp' = [resp EXCEPT ![r] = Append(@, HandlePanics(JoinUnwrap(joinResult[r])))]
    /\ stages' = [stages EXCEPT ![r] = Append(@, (IF joinResult[r].kind = "ok" THEN "Completed" ELSE "Failed"))]
    /\ UNCHANGED <<srvVars, connVars, input, body, task, place, rocReq, joinResult, calls, seen, queue>>

\* handle_req resumes with the join result; handle_panics returns.
Join(r) ==
    /\ Polling
    /\ pc[r] = "joining"
    /\ task[r] \in {"finished", "cancelled"}
    /\ pc' = [pc EXCEPT ![r] = "done"]
    /\ resp' = [resp EXCEPT ![r] = Append(@, HandlePanics(JoinUnwrap(joinResult[r])))]
    /\ stages' = [stages EXCEPT ![r] = Append(@, (IF joinResult[r].kind = "ok" THEN "Completed" ELSE "Failed"))]
    /\ UNCHANGED <<srvVars, connVars, input, body, task, place, rocReq, joinResult, calls, seen, queue>>

\* hyper writes the response; the connection can carry the next request.
WriteResponse(r) ==
    /\ startPc = "serving"
    /\ FreeIo > 0
    /\ pc[r] = "done"
    /\ pc' = [pc EXCEPT ![r] = "written"]
    /\ connBusy' = [connBusy EXCEPT ![input[r].conn] = 0]
    /\ UNCHANGED <<srvVars, connOpen, nextReq, input, body, task, place, rocReq, joinResult, calls, seen, resp, queue, stages>>

Next ==
    \/ StartSetModel
    \/ \E ok \in BOOLEAN : BuildRuntime(ok)
    \/ \E a, b \in BOOLEAN : BindServer(a, b)
    \/ \E ok \in BOOLEAN : ServerLoopEnds(ok)
    \/ RuntimeDropped
    \/ \E c \in Conns : Accept(c)
    \/ \E c \in Conns, hs \in HeaderInputs, m \in MethodInputs : Receive(c, hs, m)
    \/ \E r \in Reqs : BodyRead(r)
    \/ \E r \in Reqs : BodyError(r)
    \/ \E r \in Reqs : WorkerStart(r)
    \/ \E r \in Reqs : CallRocRespond(r)
    \/ \E r \in Reqs, out \in HandlerResponses : HandlerReturn(r, out)
    \/ \E r \in Reqs : HandlerPanic(r)
    \/ \E r \in Reqs : Join(r)
    \/ \E r \in Reqs : WriteResponse(r)

Spec == Init /\ [][Next]_vars

(* ======================================================================= *)
(* Properties                                                              *)
(* ======================================================================= *)
Finished(r) == pc[r] \in {"done", "written"}

Status(r) == resp[r][1].response.status

\* The task of r ended in a panic raised by the handler itself.
HandlerFault(r) == joinResult[r] = [kind |-> "panic", payload |-> "handler"]

\* The JoinHandle of r resolved to a JoinError.
JoinError(r) == joinResult[r].kind \in {"panic", "cancelled"}

\* C1: a request handed to the service gets exactly one response: none while
\* handle_panics(handle_req(req)) is pending, one once it has resolved, never
\* two, and what the wrapper returns is always Ok(response), never an error.
ExactlyOneResponse ==
    \A r \in Reqs :
        /\ Len(resp[r]) <= 1
        /\ Finished(r) <=> Len(resp[r]) = 1
        /\ \A i \in 1..Len(resp[r]) : resp[r][i].ok

\* Both requests are answered, one after a fault and one after a body error.
ExactlyOneResponseWitness ==
    \E r1, r2 \in Reqs :
        /\ Finished(r1) /\ HandlerFault(r1) /\ Len(resp[r1]) = 1
        /\ Finished(r2) /\ body[r2] = "err" /\ Len(resp[r2]) = 1

\* C2: when the handler invocation of a request terminates abnormally, the
\* request is answered with exactly one response, status 500 and the body
\* "Panic detected!", and the panic stops there: start() does not unwind and
\* the request's connection stays open.
HandlerFaultGives500 ==
    \A r \in Reqs :
        HandlerFault(r) =>
            /\ exitCode # PanicExit
            /\ input[r].conn \in connOpen
            /\ Finished(r) =>
                  resp[r] = << [ok |-> TRUE,
                                response |-> [status |-> 500, headers |-> << >>,
                                              body |-> "Panic detected!"]] >>

HandlerFaultGives500Witness ==
    \E r \in Reqs : HandlerFault(r) /\ calls[r] = 1 /\ pc[r] = "written"

\* The response that the request's own processing determines.
OwnResponse(r) ==
    IF body[r] = "err"
    THEN [status |-> 400, headers |-> << >>, body |-> "Error receiving HTTP request body"]
    ELSE IF joinResult[r].kind = "ok"
         THEN joinResult[r].response
         ELSE [status |-> 500, headers |-> << >>, body |-> "Panic detected!"]

\* The fields of one request.
ReqState(r) ==
    <<pc[r], input[r], body[r], task[r], place[r], rocReq[r], joinResult[r],
      calls[r], seen[r], resp[r], stages[r]>>

\* This step raises a fault in r's task or turns r's fault into its response.
FaultStep(r) ==
    \/ joinResult[r].kind = "none" /\ joinResult'[r].kind = "panic"
    \/ joinResult[r].kind = "panic" /\ pc[r] = "joining" /\ pc'[r] = "done"

\* The pool's queue without the tasks of r.
QueueOfOthers(q, r) == SelectSeq(q, LAMBDA x : x # r)

FaultStepIsolated ==
    \A r \in Reqs :
        FaultStep(r) =>
            /\ UNCHANGED <<srvVars, connVars>>
            /\ QueueOfOthers(queue', r) = QueueOfOthers(queue, r)
            /\ \A o \in Reqs \ {r} : ReqState(o)' = ReqState(o)

\* C3: a fault touches only its own request: the step that raises it and the
\* step that answers it leave the server, the connections (the request's own
\* included), the pool's queue and every other request as they were, and each
\* answered request carries the response its own processing determined,
\* whatever happened to the other requests.
FaultIsolation ==
    /\ [][FaultStepIsolated]_vars
    /\ [](\A r \in Reqs : Finished(r) => resp[r] = << [ok |-> TRUE, response |-> OwnResponse(r)] >>)

\* After a fault on the first request of a connection, the next request on
\* that connection got the handler's own response.
FaultIsolationWitness ==
    \E r1, r2 \in Reqs :
        /\ r1 < r2 /\ input[r1].conn = input[r2].conn
        /\ HandlerFault(r1) /\ Finished(r1)
        /\ Finished(r2) /\ joinResult[r2].kind = "ok" /\ Status(r2) = 200

\* C4: a request whose body could not be read is answered 400 by handle_req;
\* nothing is given to the blocking pool and the handler is not invoked.
BodyErrorShortCircuit ==
    \A r \in Reqs :
        body[r] = "err" =>
            /\ resp[r] = << [ok |-> TRUE,
                             response |-> [status |-> 400, headers |-> << >>,
                                           body |-> "Error receiving HTTP request body"]] >>
            /\ task[r] = "none"
            /\ place[r] = "none"
            /\ \A i \in 1..Len(queue) : queue[i] # r
            /\ rocReq[r] = << >>
            /\ calls[r] = 0

BodyErrorShortCircuitWitness ==
    \E r \in Reqs : body[r] = "err" /\ pc[r] = "written"

\* C5: a request with a header value that is not text is answered with a 4xx
\* response without any panic, and the handler is not invoked. (call_roc
\* translates with .expect(): the value makes the task panic, and the panic
\* comes back as the 500 of handle_panics.)
HeaderValueErrorIsBadRequest ==
    \A r \in Reqs :
        (HeadersPanic(input[r].headers) /\ task[r] = "finished" /\ Finished(r)) =>
            /\ joinResult[r].kind # "panic"
            /\ Status(r) >= 400 /\ Status(r) < 500
            /\ calls[r] = 0

\* This step answers a request whose JoinHandle resolved to a JoinError.
JoinErrorStep(r) == JoinError(r) /\ pc[r] = "joining" /\ pc'[r] = "done"

JoinErrorStepContained ==
    \A r \in Reqs :
        JoinErrorStep(r) =>
            /\ UNCHANGED <<srvVars, connVars, queue>>
            /\ \A o \in Reqs \ {r} : ReqState(o)' = ReqState(o)

\* C6: a request whose blocking task did not deliver a response (the join
\* result is a JoinError: the task panicked or was cancelled) is answered with
\* the synthesized 500, and answering it changes nothing of the server, the
\* connections or the other requests.
DispatchFailureGives500 ==
    /\ [][JoinErrorStepContained]_vars
    /\ [](\A r \in Reqs :
            (JoinError(r) /\ Finished(r)) =>
                resp[r] = << [ok |-> TRUE,
                              response |-> [status |-> 500, headers |-> << >>,
                                            body |-> "Panic detected!"]] >>)

\* One request answered after its task panicked, one after its task was
\* cancelled.
DispatchFailureGives500Witness ==
    \E r1, r2 \in Reqs :
        /\ joinResult[r1].kind = "panic" /\ Finished(r1) /\ Status(r1) = 500
        /\ joinResult[r2].kind = "cancelled" /\ Finished(r2) /\ Status(r2) = 500

\* C7: the application state is created by one call of the initializer, in
\* start(), before the listener is bound and before any connection exists; the
\* cell is never written again, and every handler invocation gets that value.
ModelCreatedOnce ==
    /\ [](/\ initCalls <= 1
          /\ startPc # "entry" => (initCalls = 1 /\ ROC_MODEL = 1)
          /\ startPc = "entry" => (initCalls = 0 /\ ROC_MODEL = 0 /\ connOpen = {})
          /\ \A r \in Reqs : calls[r] > 0 => (seen[r] = 1 /\ seen[r] = ROC_MODEL))
    /\ [][ROC_MODEL # 0 => ROC_MODEL' = ROC_MODEL]_vars
    /\ [][initCalls' # initCalls => (startPc = "entry" /\ connOpen = {} /\ nextReq = 1)]_vars

ModelCreatedOnceWitness ==
    /\ initCalls = 1
    /\ \A r \in Reqs : calls[r] = 1 /\ seen[r] = ROC_MODEL /\ Finished(r)

\* C8: the handler is invoked at most once per request: once for a request
\* whose body was buffered and whose translation succeeded, not at all for any
\* other request, and never again after a fault or a failed join.
HandlerInvokedAtMostOnce ==
    \A r \in Reqs :
        /\ calls[r] <= 1
        /\ calls[r] = 1 => (body[r] = "ok" /\ rocReq[r] # << >>)
        /\ Finished(r) => (calls[r] = 1 <=> (body[r] = "ok" /\ rocReq[r] # << >>))

\* A faulted request and a request whose task was cancelled, both answered.
HandlerInvokedAtMostOnceWitness ==
    \E r1, r2 \in Reqs :
        /\ HandlerFault(r1) /\ Finished(r1) /\ calls[r1] = 1
        /\ joinResult[r2].kind = "cancelled" /\ Finished(r2) /\ calls[r2] = 0

\* C9: call_roc runs on a thread of the blocking pool while its request's I/O
\* task is suspended in the join; no I/O worker is ever held by a task, so
\* while handlers are blocked the server can still accept a connection and
\* every other request can take its next I/O step.
HandlerOffIoThreads ==
    /\ \A r \in Reqs : Executing(r) => (place[r] = "pool" /\ pc[r] = "joining")
    /\ IoHeld = {}
    /\ FreeIo = NIoThreads
    /\ (startPc = "serving" /\ \E r \in Reqs : task[r] = "handler") =>
          /\ \A c \in Conns : c = Cardinality(connOpen) + 1 => ENABLED Accept(c)
          /\ \A o \in Reqs :
                /\ pc[o] = "reading" => (ENABLED BodyRead(o) /\ ENABLED BodyError(o))
                /\ (pc[o] = "joining" /\ task[o] = "finished") => ENABLED Join(o)
                /\ pc[o] = "done" => ENABLED WriteResponse(o)

\* A handler is blocked while another request waits for its body.
HandlerOffIoThreadsWitness ==
    \E r, o \in Reqs :
        /\ task[r] = "handler" /\ place[r] = "pool" /\ pc[r] = "joining"
        /\ pc[o] = "reading"
        /\ startPc = "serving"

\* Every thread the blocking pool may have is running a task.
Saturated == Cardinality(PoolBusy) = MaxBlockingThreads

\* A body read that succeeds while the pool is saturated queues the task and
\* produces no response.
SaturatedDispatchQueues ==
    \A r \in Reqs :
        (startPc = "serving" /\ Saturated /\ pc[r] = "reading" /\ body'[r] = "ok") =>
            /\ task'[r] = "queued"
            /\ queue' = Append(queue, r)
            /\ pc'[r] = "joining"
            /\ resp'[r] = << >>

\* The handler of r terminates, by returning or by panicking.
HandlerEnds(r) ==
    \/ \E out \in HandlerResponses : HandlerReturn(r, out)
    \/ HandlerPanic(r)

\* Pool threads take queued tasks, handlers terminate, and an I/O task whose
\* join is ready is polled.
FairSpec ==
    /\ Spec
    /\ \A r \in Reqs :
        /\ WF_vars(WorkerStart(r))
        /\ WF_vars(CallRocRespond(r))
        /\ WF_vars(HandlerEnds(r))
        /\ WF_vars(Join(r))

\* C10: with the blocking pool saturated, a request whose body has just been
\* buffered is queued, not rejected; while it waits it has no response, and
\* with fair scheduling and terminating handlers its handler is run and its
\* response produced, unless the server loop ends first.
SaturationOnlyDelays ==
    /\ [][SaturatedDispatchQueues]_vars
    /\ [](\A r \in Reqs : task[r] = "queued" => (resp[r] = << >> /\ pc[r] = "joining"))
    /\ \A r \in Reqs :
          (Saturated /\ task[r] = "queued" /\ ~HeadersPanic(input[r].headers))
             ~> ((calls[r] = 1 /\ Len(resp[r]) = 1) \/ startPc # "serving")

\* A buffered request waits in the queue of a saturated pool.
SaturationOnlyDelaysWitness ==
    \E r, o \in Reqs :
        /\ startPc = "serving" /\ Saturated
        /\ task[o] = "handler"
        /\ task[r] = "queued" /\ body[r] = "ok" /\ resp[r] = << >>

(* ----------------------- translation of one request -------------------- *)
\* Longest header list of the translated request.
MaxHeaders == 3

\* Headers as hyper hands them over: lower-case names, values as bytes.
WireHeaders ==
    { [name |-> "a", value |-> <<65>>],
      [name |-> "b", value |-> <<65>>],
      [name |-> "a", value |-> <<66>>],
      [name |-> "a", value |-> <<200>>] }

WireHeaderLists == UNION { [1..n -> WireHeaders] : n \in 0..MaxHeaders }

\* The nine verbs of the match, a non-standard verb and a verb in lower case.
WireMethods == StandardMethods \cup {"PURGE", "get"}

\* The first request of the server, with any method and any header list.
ReceiveFirst(hs, m) == nextReq = 1 /\ Receive(1, hs, m)

TranslateNext ==
    \/ StartSetModel
    \/ \E ok \in BOOLEAN : BuildRuntime(ok)
    \/ \E a, b \in BOOLEAN : BindServer(a, b)
    \/ \E ok \in BOOLEAN : ServerLoopEnds(ok)
    \/ RuntimeDropped
    \/ \E c \in Conns : Accept(c)
    \/ \E hs \in WireHeaderLists, m \in WireMethods : ReceiveFirst(hs, m)
    \/ \E r \in Reqs : BodyRead(r)
    \/ \E r \in Reqs : BodyError(r)
    \/ \E r \in Reqs : WorkerStart(r)
    \/ \E r \in Reqs : CallRocRespond(r)
    \/ \E r \in Reqs, out \in HandlerResponses : HandlerReturn(r, out)
    \/ \E r \in Reqs : HandlerPanic(r)
    \/ \E r \in Reqs : Join(r)
    \/ \E r \in Reqs : WriteResponse(r)

TranslateSpec == Init /\ [][TranslateNext]_vars

\* The task of r got past the translation of the headers.
TaskRan(r) == task[r] \in {"translated", "handler", "finished"}

\* C11: method translation is total and exact: each of the nine standard
\* verbs gets its own tag and an empty method_ext, every other verb the tag
\* Extension with the verb's text as method_ext, and no verb makes the
\* translation fail.
MethodTranslationExact ==
    \A r \in Reqs :
        /\ (TaskRan(r) /\ ~HeadersPanic(input[r].headers)) => rocReq[r] # << >>
        /\ rocReq[r] # << >> =>
              LET m == input[r].method
                  q == rocReq[r][1]
                  table == { <<"GET", "Get">>, <<"POST", "Post">>, <<"PUT", "Put">>,
                             <<"DELETE", "Delete">>, <<"HEAD", "Head">>,
                             <<"OPTIONS", "Options">>, <<"CONNECT", "Connect">>,
                             <<"PATCH", "Patch">>, <<"TRACE", "Trace">> }
              IN  IF \E e \in table : e[1] = m
                  THEN <<m, q.method>> \in table /\ q.method_ext = ""
                  ELSE q.method = "Extension" /\ q.method_ext = m

\* The handler was invoked for a PURGE request.
MethodTranslationExactWitness ==
    \E r \in Reqs :
        /\ input[r].method = "PURGE" /\ calls[r] = 1
        /\ rocReq[r][1].method = "Extension" /\ rocReq[r][1].method_ext = "PURGE"

\* C12 as stated: the headers given to the handler are the wire headers, one
\* entry each, in their wire order.
HeadersInWireOrder ==
    \A r \in Reqs :
        rocReq[r] # << >> =>
            LET w == input[r].headers
                h == rocReq[r][1].headers
            IN  /\ Len(h) = Len(w)
                /\ \A i \in 1..Len(w) : h[i].name = w[i].name /\ h[i].value = w[i].value

\* Position of the first header named n.
FirstIndex(s, n) == CHOOSE i \in 1..Len(s) : s[i].name = n /\ \A j \in 1..(i - 1) : s[j].name # n

\* C12, amended: the headers given to the handler are the wire headers, one
\* entry each, duplicates included; the entries of one name are adjacent and
\* keep their wire order, and the names come in the order of their first
\* occurrence on the wire. No wire header gives the empty sequence.
HeadersGroupedByName ==
    \A r \in Reqs :
        rocReq[r] # << >> =>
            LET w == input[r].headers
                h == rocReq[r][1].headers
            IN  /\ Len(h) = Len(w)
                /\ \A n \in {"a", "b"} :
                      SelectSeq(h, LAMBDA x : x.name = n) = SelectSeq(w, LAMBDA x : x.name = n)
                /\ \A i, j, k \in 1..Len(h) :
                      (i < j /\ j < k /\ h[i].name = h[k].name) => h[j].name = h[i].name
                /\ \A i, j \in 1..Len(h) :
                      (i < j /\ h[i].name # h[j].name) =>
                          FirstIndex(w, h[i].name) < FirstIndex(w, h[j].name)

\* The handler was invoked with the regrouped headers of a request whose two
\* "a" headers had a "b" header between them.
HeadersGroupedByNameWitness ==
    \E r \in Reqs :
        /\ calls[r] = 1
        /\ input[r].headers = << [name |-> "a", value |-> <<65>>],
                                 [name |-> "b", value |-> <<65>>],
                                 [name |-> "a", value |-> <<66>>] >>
        /\ rocReq[r][1].headers = << [name |-> "a", value |-> <<65>>],
                                    [name |-> "a", value |-> <<66>>],
                                    [name |-> "b", value |-> <<65>>] >>

\* C13: the exit status is 0 only when the server loop ended without error;
\* it is non-zero when the runtime cannot be built, the address does not
\* parse, the listener cannot bind or the server loop ends with an error; and
\* after a startup failure no connection was accepted and no request served.
ExitStatus ==
    /\ exitCode = 0 <=> cause = "loop_ok"
    /\ cause = "none" <=> exitCode = NoExit
    /\ cause \in {"runtime", "addr", "bind", "loop_err"} => (exitCode # 0 /\ exitCode # NoExit)
    /\ cause \in {"runtime", "addr", "bind"} =>
          /\ startPc = "exited"
          /\ connOpen = {}
          /\ nextReq = 1
          /\ \A r \in Reqs : pc[r] = "idle" /\ resp[r] = << >> /\ calls[r] = 0

\* The listener could not bind.
ExitStatusWitness ==
    cause = "bind" /\ exitCode # 0 /\ exitCode # NoExit /\ startPc = "exited"

IsPrefix(s, t) == Len(s) <= Len(t) /\ \A i \in 1..Len(s) : s[i] = t[i]

\* The stages s follow the given order and end, if they have ended, with
\* Completed after the last stage or with Failed after any stage.
FollowsOrder(s, order) ==
    \/ IsPrefix(s, order \o <<"Completed">>)
    \/ /\ Len(s) >= 2
       /\ s[Len(s)] = "Failed"
       /\ IsPrefix(SubSeq(s, 1, Len(s) - 1), order)

HasStage(r, st) == \E i \in 1..Len(stages[r]) : stages[r][i] = st

\* C14 as stated: Received, BodyBuffered, Translated, Dispatched, then
\* Completed or Failed.
StagesTranslateThenDispatch ==
    \A r \in Reqs :
        FollowsOrder(stages[r], <<"Received", "BodyBuffered", "Translated", "Dispatched">>)

\* C14, amended: a request goes through Received, BodyBuffered, Dispatched,
\* Translated, then Completed or Failed: the Normalized Request is built by
\* call_roc inside the blocking task, after the request was given to the
\* pool. No stage is skipped or revisited except the direct jump to Failed.
StagesDispatchThenTranslate ==
    \A r \in Reqs :
        /\ FollowsOrder(stages[r], <<"Received", "BodyBuffered", "Dispatched", "Translated">>)
        /\ HasStage(r, "Received") <=> pc[r] # "idle"
        /\ HasStage(r, "BodyBuffered") <=> body[r] = "ok"
        /\ HasStage(r, "Dispatched") <=> place[r] # "none"
        /\ HasStage(r, "Translated") <=> rocReq[r] # << >>
        /\ HasStage(r, "Completed") <=> (Finished(r) /\ joinResult[r].kind = "ok")
        /\ HasStage(r, "Failed") <=> (Finished(r) /\ joinResult[r].kind # "ok")

\* A request went through every stage and completed.
StagesDispatchThenTranslateWitness ==
    \E r \in Reqs :
        stages[r] = <<"Received", "BodyBuffered", "Dispatched", "Translated", "Completed">>

\* C15: translation and the handler start only after the whole body is in
\* memory: a request has a blocking task, a Normalized Request or a handler
\* invocation only if its body read completed successfully.
BodyBufferedFirst ==
    \A r \in Reqs :
        /\ (\/ task[r] # "none"
            \/ place[r] # "none"
            \/ \E i \in 1..Len(queue) : queue[i] = r
            \/ rocReq[r] # << >>
            \/ calls[r] > 0
            \/ joinResult[r].kind # "none") => body[r] = "ok"
        /\ body[r] = "pending" => pc[r] \in {"idle", "reading"}

\* A handler runs for a request whose body was read.
BodyBufferedFirstWitness ==
    \E r \in Reqs : task[r] = "handler" /\ calls[r] = 1 /\ body[r] = "ok"

ForwardedUnchanged ==
    \A r \in Reqs :
        Finished(r) =>
            /\ joinResult[r].kind = "ok" =>
                  /\ Len(resp[r]) = 1
                  /\ resp[r][1].ok
                  /\ DOMAIN resp[r][1].response = {"status", "headers", "body"}
                  /\ resp[r][1].response.status = joinResult[r].response.status
                  /\ resp[r][1].response.headers = joinResult[r].response.headers
                  /\ resp[r][1].response.body = joinResult[r].response.body
            /\ body[r] = "err" =>
                  resp[r] = << [ok |-> TRUE,
                                response |-> [status |-> 400, headers |-> << >>,
                                              body |-> "Error receiving HTTP request body"]] >>

\* The handler's 200 with its header and body reached the client side.
ForwardedUnchangedWitness ==
    \E r \in Reqs :
        /\ Finished(r) /\ joinResult[r].kind = "ok"
        /\ resp[r][1].response =
              [status |-> 200, headers |-> << <<"content-type", "text/plain">> >>, body |-> "OK"]

\* A running task only moves on by itself: to the handler call, then to its end.
TaskRunsToItsEnd ==
    \A r \in Reqs :
        /\ task[r] = "translated" => task'[r] \in {"translated", "handler", "finished"}
        /\ task[r] = "handler" => task'[r] \in {"handler", "finished"}
        /\ (task[r] = "handler" /\ task'[r] = "finished") => joinResult'[r].kind \in {"ok", "panic"}

\* C18: a running handler invocation is never preempted or cancelled: a
\* dispatched request has no response while its task runs, its response is
\* produced only once the task has ended (returned, faulted, or dropped by
\* the pool before it ran), and the timeout hint is only a field of the
\* Normalized Request.
NoPreemption ==
    /\ [][TaskRunsToItsEnd]_vars
    /\ [](\A r \in Reqs :
            /\ Executing(r) => (resp[r] = << >> /\ pc[r] = "joining")
            /\ (place[r] # "none" /\ resp[r] # << >>) => task[r] \in {"finished", "cancelled"}
            /\ rocReq[r] # << >> => rocReq[r][1].timeout_ms = 0)

\* A handler is still running, unanswered, while another request that was
\* handled after it arrived has its response.
NoPreemptionWitness ==
    \E r, o \in Reqs :
        /\ task[r] = "handler" /\ resp[r] = << >>
        /\ Finished(o) /\ body[o] = "err"

\* The request is being processed.
InFlight(r) == startPc = "serving" /\ pc[r] \in {"reading", "joining"}

\* The request can take a step of its own now.
OwnStepEnabled(r) ==
    \/ ENABLED BodyRead(r)
    \/ ENABLED WorkerStart(r)
    \/ ENABLED CallRocRespond(r)
    \/ ENABLED HandlerEnds(r)
    \/ ENABLED Join(r)

\* The task of r is queued behind a task that a free pool thread can take.
QueueMoves(r) == task[r] = "queued" /\ queue # << >> /\ ENABLED WorkerStart(Head(queue))

\* C19 as stated: requests in flight never wait for each other's completion:
\* each can take its next step, or the queue in front of it can move.
NeitherWaits ==
    \A r \in Reqs : InFlight(r) => (OwnStepEnabled(r) \/ QueueMoves(r))

\* C19, amended: requests in flight are unordered and a later request can
\* complete before an earlier one; a request waits for the end of another's
\* handler only while its own task is queued and every thread of the pool is
\* running a task.
WaitsOnlyForPoolThread ==
    \A r \in Reqs :
        InFlight(r) =>
            \/ OwnStepEnabled(r)
            \/ QueueMoves(r)
            \/ task[r] = "queued" /\ Cardinality(PoolBusy) = MaxBlockingThreads

\* The request issued second was answered by the handler while the request
\* issued first is still in flight.
WaitsOnlyForPoolThreadWitness ==
    \E r1, r2 \in Reqs :
        /\ r1 < r2
        /\ Finished(r2) /\ calls[r2] = 1 /\ joinResult[r2].kind = "ok"
        /\ InFlight(r1) /\ pc[r1] = "joining"

(* ----------------------- start() entered again ------------------------- *)
\* Calls of start() in one process.
MaxStarts == 2

\* start() is a plain function: after a call has returned or unwound, the
\* process can call it again; the static ROC_MODEL keeps its content.
StartAgain ==
    /\ startPc = "exited"
    /\ initCalls < MaxStarts
    /\ startPc' = "entry"
    /\ exitCode' = NoExit
    /\ cause' = "none"
    /\ UNCHANGED <<ROC_MODEL, initCalls, connVars, reqVars>>

RestartNext ==
    \/ StartSetModel
    \/ \E ok \in BOOLEAN : BuildRuntime(ok)
    \/ \E a, b \in BOOLEAN : BindServer(a, b)
    \/ \E ok \in BOOLEAN : ServerLoopEnds(ok)
    \/ RuntimeDropped
    \/ \E c \in Conns : Accept(c)
    \/ \E c \in Conns, hs \in HeaderInputs, m \in MethodInputs : Receive(c, hs, m)
    \/ \E r \in Reqs : BodyRead(r)
    \/ \E r \in Reqs : BodyError(r)
    \/ \E r \in Reqs : WorkerStart(r)
    \/ \E r \in Reqs : CallRocRespond(r)
    \/ \E r \in Reqs, out \in HandlerResponses : HandlerReturn(r, out)
    \/ \E r \in Reqs : HandlerPanic(r)
    \/ \E r \in Reqs : Join(r)
    \/ \E r \in Reqs : WriteResponse(r)
    \/ StartAgain

RestartSpec == Init /\ [][RestartNext]_vars

\* The expect on ROC_MODEL.get() in call_roc failed for this request.
GetAssertionFailed(r) ==
    /\ joinResult[r].kind = "panic"
    /\ joinResult[r].payload = "Model was initialized at startup"

\* C20: while start() has been entered once, neither one-time-initialization
\* assertion fails: the set finds the cell empty and every get, which runs
\* after the set, finds the stored state; each further call of start() in the
\* same process fails the assertion on the set and leaves the cell as it was.
InitAssertions ==
    /\ [](/\ initCalls <= 1 => cause # "set_expect"
          /\ \A r \in Reqs : ~GetAssertionFailed(r)
          /\ \A r \in Reqs : task[r] \in {"translated", "handler"} => ROC_MODEL = 1
          /\ (initCalls >= 2 /\ startPc # "entry") =>
                (startPc = "exited" /\ cause = "set_expect" /\ exitCode = PanicExit))
    /\ [][(startPc = "entry" /\ initCalls = 0 /\ initCalls' = 1) =>
            (ROC_MODEL = 0 /\ ROC_MODEL' = 1 /\ startPc' = "model_set")]_vars
    /\ [][(startPc = "entry" /\ initCalls >= 1 /\ initCalls' # initCalls) =>
            (ROC_MODEL' = ROC_MODEL /\ ROC_MODEL = 1 /\ cause' = "set_expect")]_vars

\* The first call served a request and returned; the second call failed the
\* assertion on the set.
InitAssertionsWitness ==
    /\ initCalls = 2
    /\ startPc = "exited" /\ cause = "set_expect" /\ exitCode = PanicExit
    /\ \E r \in Reqs : calls[r] = 1 /\ seen[r] = ROC_MODEL /\ Finished(r)

====
